---- MODULE Spec2Model ----
(***************************************************************************)
(* Model of the hotkey-driven correction pipeline of grammar_llama/main.py *)
(* (class GrammarChecker, main_async).                                     *)
(*                                                                         *)
(* The asyncio event loop is modelled by its FIFO queue of ready callbacks *)
(* (`ready`): entry HK is one pending step of a handle_hotkey task, entry  *)
(* r >= 1 is one pending step of the process_text task of run r.  A step   *)
(* runs from one suspension point of the coroutine to the next without     *)
(* interruption.  Events that come from outside the loop append to the     *)
(* queue at any time: the hotkey thread (on_activate), the expiry of an    *)
(* asyncio.sleep(0.1) timer (TimerFire) and the completion of the          *)
(* client.chat task (chat_return).  Spec starts once GrammarChecker() has   *)
(* returned from a successful startup check; StartSpec starts before it.   *)
(***************************************************************************)
EXTENDS Integers, Sequences, FiniteSets, TLC

\* Bound on the number of hotkey activations delivered in one behaviour.
MaxRuns == 3

Runs == 1..MaxRuns
HK == 0

\* Texts.  The selection the OS copies for run r and the corrected text the
\* service produces for run r are distinct symbolic values.
NoText == <<>>
InitialClipboard == <<"init", 0>>
Selection(r) == <<"sel", r>>
Fix(r) == <<"fix", r>>

\* What the client.chat task of a run can end with.
Outcomes == {"usable", "empty", "nocontent", "invalid", "ResponseError", "Exception"}

Terminal == {"Completed", "Cancelled", "Failed"}
Body == {"Capturing", "AwaitingCorrection", "Applying"}

VARIABLES
    nAct,           \* activations delivered by the hotkey thread so far
    ready,          \* the event loop's FIFO queue of ready callbacks
    current_task,   \* self.current_task: 0 (None) or a run
    cancelled,      \* self.cancelled
    nRuns,          \* number of process_text tasks created so far
    pc,             \* per run: where its coroutine is suspended, or how it ended
    must_cancel,    \* per run: task.cancel() was called and is not yet delivered
    locked,         \* self.lock._locked
    waiters,        \* self.lock._waiters, oldest first
    lockFut,        \* per run: state of its future in self.lock._waiters
    chat,           \* per run: state of its chat_task
    clipboard,      \* the OS clipboard (pyperclip copy / paste)
    original_text,  \* per run: the local original_text of process_text
    applied,        \* per run: copy(corrected_text) and the paste chord were executed
    rendered,       \* per run: print_diff and summarize_grammar were executed
    cancelAt,       \* per run: pc of the run when task.cancel() was called on it
    chatAtCancel,   \* per run: state of its chat_task when task.cancel() was called
    clipAtExit,     \* per run: the clipboard when the run ended
    phase,          \* "startup" (in GrammarChecker()), "listening" or "exited"
    startup_result, \* how ps() / show(model) ended in run_startup_tasks
    exit_status     \* the status the process exited with, NoExit while it runs

vars == <<nAct, ready, current_task, cancelled, nRuns, pc, must_cancel, locked,
          waiters, lockFut, chat, clipboard, original_text, applied, rendered,
          cancelAt, chatAtCancel, clipAtExit, phase, startup_result, exit_status>>

startVars == <<phase, startup_result, exit_status>>
orchVars == <<nAct, current_task, nRuns, startVars>>
histVars == <<cancelAt, chatAtCancel>>

\* Exit statuses of the process.
NoExit == -1
EXIT_INTERRUPTED == 0
EXIT_UNREACHABLE == 1
EXIT_MODEL_MISSING == 1

\* The orchestrator state GrammarChecker.__init__ sets up.
InitOrchestrator ==
    /\ nAct = 0
    /\ ready = <<>>
    /\ current_task = 0
    /\ cancelled = FALSE
    /\ nRuns = 0
    /\ pc = [r \in Runs |-> "None"]
    /\ must_cancel = [r \in Runs |-> FALSE]
    /\ locked = FALSE
    /\ waiters = <<>>
    /\ lockFut = [r \in Runs |-> "none"]
    /\ chat = [r \in Runs |-> "none"]
    /\ clipboard = InitialClipboard
    /\ original_text = [r \in Runs |-> NoText]
    /\ applied = [r \in Runs |-> FALSE]
    /\ rendered = [r \in Runs |-> FALSE]
    /\ cancelAt = [r \in Runs |-> "never"]
    /\ chatAtCancel = [r \in Runs |-> "never"]
    /\ clipAtExit = [r \in Runs |-> NoText]

\* The state once GrammarChecker() has returned after a successful startup
\* check and the hotkey listener has been started.
Init ==
    /\ InitOrchestrator
    /\ phase = "listening"
    /\ startup_result = "ok"
    /\ exit_status = NoExit

InReady(x) == \E i \in DOMAIN ready : ready[i] = x

RemoveWaiter(w, r) == SelectSeq(w, LAMBDA x : x # r)

\* Lock._wake_up_first on the waiter queue w: the first waiter, if its future is
\* not done, gets its result set and its task is scheduled; otherwise nobody.
WakeUpFirst(w) ==
    IF w # <<>> /\ lockFut[Head(w)] = "pending" THEN <<Head(w)>> ELSE <<>>

\* on_activate: the hotkey thread hands handle_hotkey() to the loop and returns.
on_activate ==
    /\ phase = "listening"
    /\ nAct < MaxRuns
    /\ nAct' = nAct + 1
    /\ ready' = Append(ready, HK)
    /\ UNCHANGED <<current_task, cancelled, nRuns, pc, must_cancel, locked, waiters,
                   lockFut, chat, clipboard, original_text, applied, rendered,
                   cancelAt, chatAtCancel, clipAtExit,
                   startVars>>

\* handle_hotkey without `self.current_task.cancel()`: the previous run is
\* left running (the history of the supersession is still recorded).
handle_hotkey_nocancel ==
    /\ ready # <<>>
    /\ Head(ready) = HK
    /\ LET prev == current_task
           live == prev # 0 /\ pc[prev] \notin Terminal
           new  == nRuns + 1
       IN  /\ cancelAt' = IF live THEN [cancelAt EXCEPT ![prev] = pc[prev]]
                                  ELSE cancelAt
           /\ chatAtCancel' = IF live THEN [chatAtCancel EXCEPT ![prev] = chat[prev]]
                                      ELSE chatAtCancel
           /\ ready' = Tail(ready) \o <<new>>
           /\ cancelled' = FALSE
           /\ current_task' = new
           /\ nRuns' = new
           /\ pc' = [pc EXCEPT ![new] = "Started"]
    /\ UNCHANGED <<nAct, must_cancel, lockFut, locked, waiters, chat, clipboard,
                   original_text, applied, rendered, clipAtExit,
                   startVars>>

\* handle_hotkey that waits for the previous task to be done before it creates
\* the new one.
handle_hotkey_blocking ==
    /\ ready # <<>>
    /\ Head(ready) = HK
    /\ current_task # 0 => pc[current_task] \in Terminal
    /\ ready' = Tail(ready) \o <<nRuns + 1>>
    /\ cancelled' = FALSE
    /\ current_task' = nRuns + 1
    /\ nRuns' = nRuns + 1
    /\ pc' = [pc EXCEPT ![nRuns + 1] = "Started"]
    /\ UNCHANGED <<nAct, must_cancel, lockFut, locked, waiters, chat, clipboard,
                   original_text, applied, rendered, cancelAt, chatAtCancel,
                   clipAtExit,
                   startVars>>

\* handle_hotkey that ignores an activation arriving while a run is in flight.
handle_hotkey_ignore ==
    /\ ready # <<>>
    /\ Head(ready) = HK
    /\ IF current_task # 0 /\ pc[current_task] \notin Terminal
       THEN /\ ready' = Tail(ready)
            /\ UNCHANGED <<cancelled, current_task, nRuns, pc>>
       ELSE /\ ready' = Tail(ready) \o <<nRuns + 1>>
            /\ cancelled' = FALSE
            /\ current_task' = nRuns + 1
            /\ nRuns' = nRuns + 1
            /\ pc' = [pc EXCEPT ![nRuns + 1] = "Started"]
    /\ UNCHANGED <<nAct, must_cancel, lockFut, locked, waiters, chat, clipboard,
                   original_text, applied, rendered, cancelAt, chatAtCancel,
                   clipAtExit,
                   startVars>>

\* handle_hotkey without the `self.cancelled = False` of line 215: the flag
\* stays set after a live run was cancelled.
handle_hotkey_noreset ==
    /\ ready # <<>>
    /\ Head(ready) = HK
    /\ LET prev == current_task
           live == prev # 0 /\ pc[prev] \notin Terminal
           new  == nRuns + 1
       IN  /\ must_cancel' = IF live THEN [must_cancel EXCEPT ![prev] = TRUE]
                                     ELSE must_cancel
           /\ lockFut' = IF live /\ lockFut[prev] = "pending"
                             THEN [lockFut EXCEPT ![prev] = "cancelled"]
                             ELSE lockFut
           /\ cancelAt' = IF live THEN [cancelAt EXCEPT ![prev] = pc[prev]]
                                  ELSE cancelAt
           /\ chatAtCancel' = IF live THEN [chatAtCancel EXCEPT ![prev] = chat[prev]]
                                      ELSE chatAtCancel
           /\ ready' = Tail(ready)
                         \o (IF live /\ ~InReady(prev) THEN <<prev>> ELSE <<>>)
                         \o <<new>>
           /\ cancelled' = (live \/ cancelled)
           /\ current_task' = new
           /\ nRuns' = new
           /\ pc' = [pc EXCEPT ![new] = "Started"]
    /\ UNCHANGED <<nAct, locked, waiters, chat, clipboard, original_text, applied,
                   rendered, clipAtExit, startVars>>

\* handle_hotkey: one uninterrupted step.  Task.cancel() on a task that is not
\* done marks it (the CancelledError is thrown at its next step) and schedules
\* that step unless it is scheduled already.
handle_hotkey ==
    /\ ready # <<>>
    /\ Head(ready) = HK
    /\ LET prev == current_task
           live == prev # 0 /\ pc[prev] \notin Terminal
           new  == nRuns + 1
       IN  /\ must_cancel' = IF live THEN [must_cancel EXCEPT ![prev] = TRUE]
                                     ELSE must_cancel
           /\ lockFut' = IF live /\ lockFut[prev] = "pending"
                             THEN [lockFut EXCEPT ![prev] = "cancelled"]
                             ELSE lockFut
           /\ cancelAt' = IF live THEN [cancelAt EXCEPT ![prev] = pc[prev]]
                                  ELSE cancelAt
           /\ chatAtCancel' = IF live THEN [chatAtCancel EXCEPT ![prev] = chat[prev]]
                                      ELSE chatAtCancel
           /\ ready' = Tail(ready)
                         \o (IF live /\ ~InReady(prev) THEN <<prev>> ELSE <<>>)
                         \o <<new>>
           /\ cancelled' = FALSE
           /\ current_task' = new
           /\ nRuns' = new
           /\ pc' = [pc EXCEPT ![new] = "Started"]
    /\ UNCHANGED <<nAct, locked, waiters, chat, clipboard, original_text, applied,
                   rendered, clipAtExit,
                   startVars>>

\* The expiry of the asyncio.sleep(0.1) a run is suspended in.
TimerFire(r) ==
    /\ pc[r] \in Body
    /\ ~InReady(r)
    /\ ready' = Append(ready, r)
    /\ UNCHANGED <<nAct, current_task, cancelled, nRuns, pc, must_cancel, locked,
                   waiters, lockFut, chat, clipboard, original_text, applied,
                   rendered, cancelAt, chatAtCancel, clipAtExit,
                   startVars>>

\* The chat_task of run r ends with outcome o.  Nothing awaits it: the poll
\* loop of correct_grammar looks at chat_task.done() when it next resumes.
chat_return(r, o) ==
    /\ chat[r] = "pending"
    /\ chat' = [chat EXCEPT ![r] = o]
    /\ UNCHANGED <<nAct, ready, current_task, cancelled, nRuns, pc, must_cancel,
                   locked, waiters, lockFut, clipboard, original_text, applied,
                   rendered, cancelAt, chatAtCancel, clipAtExit,
                   startVars>>

\* Leaving process_text from inside `async with self.lock` with the task ending
\* `how`: Lock.release() (locked := False, _wake_up_first), task done.
exit_lock(r, how) ==
    /\ pc' = [pc EXCEPT ![r] = how]
    /\ locked' = FALSE
    /\ lockFut' = [x \in Runs |-> IF <<x>> = WakeUpFirst(waiters) THEN "result"
                                                                  ELSE lockFut[x]]
    /\ ready' = Tail(ready) \o WakeUpFirst(waiters)
    /\ must_cancel' = [must_cancel EXCEPT ![r] = FALSE]
    /\ clipAtExit' = [clipAtExit EXCEPT ![r] = clipboard']
    /\ UNCHANGED waiters

\* The coroutine of run r suspends in an asyncio.sleep(0.1) at `where`.
suspend(r, where) ==
    /\ pc' = [pc EXCEPT ![r] = where]
    /\ ready' = Tail(ready)
    /\ UNCHANGED <<must_cancel, locked, waiters, lockFut, clipAtExit>>

\* The copy chord of copy_text_at_cursor: the OS puts the selection on the
\* clipboard; the coroutine then sleeps 0.1 s.
copy_chord(r) ==
    /\ clipboard' = Selection(r)
    /\ pc' = [pc EXCEPT ![r] = "Capturing"]
    /\ ready' = Tail(ready)

\* process_text without `async with self.lock`: straight to the copy chord.
process_text_nolock(r) ==
    /\ cancelled' = FALSE
    /\ copy_chord(r)
    /\ UNCHANGED <<orchVars, must_cancel, locked, waiters, lockFut, chat,
                   original_text, applied, rendered, histVars, clipAtExit>>

\* process_text from its first step to its first suspension: reset the flag,
\* Lock.acquire() (taken at once when free and no live waiter, else queue a
\* future and wait), then the copy chord.
\* (handle_hotkey cancels the previous task before it creates the next one and
\* the loop runs callbacks in order, so the lock is free whenever a run gets
\* here; the waiting branch is Lock.acquire's, kept as the library has it.)
process_text(r) ==
    /\ cancelled' = FALSE
    /\ IF ~locked /\ \A i \in DOMAIN waiters : lockFut[waiters[i]] = "cancelled"
       THEN /\ locked' = TRUE
            /\ copy_chord(r)
            /\ UNCHANGED <<waiters, lockFut>>
       ELSE /\ waiters' = Append(waiters, r)
            /\ lockFut' = [lockFut EXCEPT ![r] = "pending"]
            /\ pc' = [pc EXCEPT ![r] = "LockWait"]
            /\ ready' = Tail(ready)
            /\ UNCHANGED <<locked, clipboard>>
    /\ UNCHANGED <<orchVars, must_cancel, chat, original_text, applied, rendered,
                   histVars, clipAtExit>>

\* Lock.acquire() resumed with its future's result set: leave the waiter
\* queue, take the lock, then the copy chord.
lock_acquired(r) ==
    /\ waiters' = RemoveWaiter(waiters, r)
    /\ lockFut' = [lockFut EXCEPT ![r] = "none"]
    /\ locked' = TRUE
    /\ copy_chord(r)
    /\ UNCHANGED <<orchVars, cancelled, must_cancel, chat, original_text, applied,
                   rendered, histVars, clipAtExit>>

\* copy_text_at_cursor resumed after its sleep: paste() reads the clipboard
\* (it may raise); correct_grammar then creates chat_task and runs the poll
\* loop up to its first sleep.
copy_text_at_cursor(r) ==
    \E ok \in BOOLEAN :
        IF ok
        THEN /\ original_text' = [original_text EXCEPT ![r] = clipboard]
             /\ clipboard' = clipboard
             /\ IF cancelled
                THEN /\ chat' = [chat EXCEPT ![r] = "cancelled"]
                     /\ exit_lock(r, "Cancelled")
                ELSE /\ chat' = [chat EXCEPT ![r] = "pending"]
                     /\ suspend(r, "AwaitingCorrection")
             /\ UNCHANGED <<orchVars, cancelled, applied, rendered, histVars>>
        ELSE /\ clipboard' = clipboard
             /\ exit_lock(r, "Failed")
             /\ UNCHANGED <<orchVars, cancelled, chat, original_text, applied,
                            rendered, histVars>>

\* What correct_grammar returns once chat_task is done with outcome o:
\* a Response, or None (no content, validation failure, ResponseError, any
\* other exception).
None == [is_none |-> TRUE, corrected_text |-> NoText]
correct_grammar_result(r, o) ==
    CASE o = "usable" -> [is_none |-> FALSE, corrected_text |-> Fix(r)]
      [] o = "empty"  -> [is_none |-> FALSE, corrected_text |-> NoText]
      [] OTHER        -> None

\* `if response` alone: an empty corrected_text counts as usable.
Usable_any_response(response) == ~response.is_none

\* `if response and response.corrected_text`
Usable(response) == ~response.is_none /\ response.corrected_text # NoText

\* process_text that releases the lock only after a paste: the degraded
\* completion returns with the lock still held.
process_text_result_norelease(r, response) ==
    IF Usable(response)
    THEN \E ok \in BOOLEAN :
            /\ rendered' = [rendered EXCEPT ![r] = TRUE]
            /\ IF ok
               THEN /\ clipboard' = response.corrected_text
                    /\ applied' = [applied EXCEPT ![r] = TRUE]
                    /\ suspend(r, "Applying")
               ELSE /\ clipboard' = clipboard
                    /\ applied' = applied
                    /\ exit_lock(r, "Failed")
            /\ UNCHANGED <<orchVars, cancelled, chat, original_text, histVars>>
    ELSE /\ pc' = [pc EXCEPT ![r] = "Completed"]
         /\ ready' = Tail(ready)
         /\ clipAtExit' = [clipAtExit EXCEPT ![r] = clipboard]
         /\ UNCHANGED <<orchVars, cancelled, chat, original_text, applied, rendered,
                        histVars, clipboard, locked, waiters, lockFut, must_cancel>>

\* process_text that pastes first and prints the diff and the summary only
\* when paste_text_at_cursor has returned.
process_text_result_norender(r, response) ==
    IF Usable(response)
    THEN \E ok \in BOOLEAN :
            /\ rendered' = rendered
            /\ IF ok
               THEN /\ clipboard' = response.corrected_text
                    /\ applied' = [applied EXCEPT ![r] = TRUE]
                    /\ suspend(r, "Applying")
               ELSE /\ clipboard' = clipboard
                    /\ applied' = applied
                    /\ exit_lock(r, "Failed")
            /\ UNCHANGED <<orchVars, cancelled, chat, original_text, histVars>>
    ELSE /\ clipboard' = clipboard
         /\ exit_lock(r, "Completed")
         /\ UNCHANGED <<orchVars, cancelled, chat, original_text, applied, rendered,
                        histVars>>

\* process_text after correct_grammar returned `response`: diff, summary,
\* copy() (it may raise), paste chord and sleep; or skip the paste.
process_text_result(r, response) ==
    IF Usable(response)
    THEN \E ok \in BOOLEAN :
            /\ rendered' = [rendered EXCEPT ![r] = TRUE]
            /\ IF ok
               THEN /\ clipboard' = response.corrected_text
                    /\ applied' = [applied EXCEPT ![r] = TRUE]
                    /\ suspend(r, "Applying")
               ELSE /\ clipboard' = clipboard
                    /\ applied' = applied
                    /\ exit_lock(r, "Failed")
            /\ UNCHANGED <<orchVars, cancelled, chat, original_text, histVars>>
    ELSE /\ clipboard' = clipboard
         /\ exit_lock(r, "Completed")
         /\ UNCHANGED <<orchVars, cancelled, chat, original_text, applied, rendered,
                        histVars>>

\* correct_grammar resumed after a sleep of its poll loop.
correct_grammar(r) ==
    IF chat[r] = "pending"
    THEN IF cancelled
         THEN /\ chat' = [chat EXCEPT ![r] = "cancelled"]
              /\ clipboard' = clipboard
              /\ exit_lock(r, "Cancelled")
              /\ UNCHANGED <<orchVars, cancelled, original_text, applied, rendered,
                             histVars>>
         ELSE /\ suspend(r, "AwaitingCorrection")
              /\ UNCHANGED <<orchVars, cancelled, chat, clipboard, original_text,
                             applied, rendered, histVars>>
    ELSE process_text_result(r, correct_grammar_result(r, chat[r]))

\* paste_text_at_cursor resumed after its sleep: process_text returns.
paste_text_at_cursor(r) ==
    /\ clipboard' = clipboard
    /\ exit_lock(r, "Completed")
    /\ UNCHANGED <<orchVars, cancelled, chat, original_text, applied, rendered,
                   histVars>>

\* correct_grammar that swallows the CancelledError thrown at the sleep of its
\* poll loop and goes on polling.
correct_grammar_swallow(r) == correct_grammar(r)

\* CancelledError thrown into correct_grammar at the sleep of its poll loop:
\* `except asyncio.CancelledError: print; raise`; chat_task is left as it is.
correct_grammar_cancelled(r) ==
    /\ clipboard' = clipboard
    /\ exit_lock(r, "Cancelled")
    /\ UNCHANGED <<orchVars, cancelled, chat, original_text, applied, rendered,
                   histVars>>

\* CancelledError thrown into the coroutine of run r where it is suspended.
throw(r) ==
    CASE pc[r] = "Started" ->
            \* the coroutine never starts
            /\ pc' = [pc EXCEPT ![r] = "Cancelled"]
            /\ ready' = Tail(ready)
            /\ must_cancel' = [must_cancel EXCEPT ![r] = FALSE]
            /\ clipAtExit' = [clipAtExit EXCEPT ![r] = clipboard]
            /\ UNCHANGED <<orchVars, cancelled, locked, waiters, lockFut, chat,
                           clipboard, original_text, applied, rendered, histVars>>
      [] pc[r] = "LockWait" ->
            \* Lock.acquire: remove the future; wake the next waiter if unlocked
            LET rest == RemoveWaiter(waiters, r)
                wake == IF ~locked /\ rest # <<>> /\ lockFut[Head(rest)] = "pending"
                        THEN <<Head(rest)>> ELSE <<>>
            IN  /\ waiters' = rest
                /\ lockFut' = [x \in Runs |-> IF x = r THEN "none"
                                              ELSE IF <<x>> = wake THEN "result"
                                              ELSE lockFut[x]]
                /\ ready' = Tail(ready) \o wake
                /\ pc' = [pc EXCEPT ![r] = "Cancelled"]
                /\ must_cancel' = [must_cancel EXCEPT ![r] = FALSE]
                /\ clipAtExit' = [clipAtExit EXCEPT ![r] = clipboard]
                /\ UNCHANGED <<orchVars, cancelled, locked, chat, clipboard,
                               original_text, applied, rendered, histVars>>
      [] pc[r] = "AwaitingCorrection" -> correct_grammar_cancelled(r)
      [] OTHER ->
            /\ clipboard' = clipboard
            /\ exit_lock(r, "Cancelled")
            /\ UNCHANGED <<orchVars, cancelled, chat, original_text, applied,
                           rendered, histVars>>

\* One step of the process_text task at the head of the ready queue.
task_step ==
    /\ ready # <<>>
    /\ Head(ready) \in Runs
    /\ LET r == Head(ready)
       IN  IF must_cancel[r]
           THEN throw(r)
           ELSE CASE pc[r] = "Started"            -> process_text(r)
                  [] pc[r] = "LockWait"           -> lock_acquired(r)
                  [] pc[r] = "Capturing"          -> copy_text_at_cursor(r)
                  [] pc[r] = "AwaitingCorrection" -> correct_grammar(r)
                  [] pc[r] = "Applying"           -> paste_text_at_cursor(r)

Next ==
    \/ on_activate
    \/ handle_hotkey
    \/ \E r \in Runs : TimerFire(r)
    \/ \E r \in Runs : \E o \in Outcomes : chat_return(r, o)
    \/ task_step

Spec == Init /\ [][Next]_vars

TypeOK ==
    /\ nAct \in 0..MaxRuns
    /\ nRuns \in 0..MaxRuns
    /\ current_task \in 0..MaxRuns
    /\ cancelled \in BOOLEAN
    /\ locked \in BOOLEAN
    /\ \A r \in Runs : pc[r] \in {"None", "Started", "LockWait"} \cup Body \cup Terminal
    /\ \A r \in Runs : chat[r] \in {"none", "pending", "cancelled"} \cup Outcomes

\* How ps() / show(self.model) can end.
StartupResults == {"ok", "ConnectError", "ResponseError", "Exception",
                   "KeyboardInterrupt"}

\* run_startup_tasks with `return` in place of sys.exit(1) for a missing model.
run_startup_tasks_noexit(o) ==
    CASE o = "ok"            -> [exit |-> NoExit, raised |-> "none"]
      [] o = "ConnectError"  -> [exit |-> EXIT_UNREACHABLE, raised |-> "none"]
      [] o = "ResponseError" -> [exit |-> NoExit, raised |-> "none"]
      [] OTHER               -> [exit |-> NoExit, raised |-> o]

\* run_startup_tasks: ConnectError and ResponseError are caught and end in
\* sys.exit; anything else propagates; on success it returns.
run_startup_tasks(o) ==
    CASE o = "ok"            -> [exit |-> NoExit, raised |-> "none"]
      [] o = "ConnectError"  -> [exit |-> EXIT_UNREACHABLE, raised |-> "none"]
      [] o = "ResponseError" -> [exit |-> EXIT_MODEL_MISSING, raised |-> "none"]
      [] OTHER               -> [exit |-> NoExit, raised |-> o]

\* GrammarChecker() in main_async, then the start of the hotkey listener:
\* SystemExit leaves the process; KeyboardInterrupt is turned into
\* sys.exit(0); any other exception is printed and the constructor returns.
startup(o) ==
    /\ phase = "startup"
    /\ startup_result' = o
    /\ LET res == run_startup_tasks(o)
       IN  IF res.exit # NoExit
           THEN phase' = "exited" /\ exit_status' = res.exit
           ELSE IF res.raised = "KeyboardInterrupt"
                THEN phase' = "exited" /\ exit_status' = EXIT_INTERRUPTED
                ELSE phase' = "listening" /\ exit_status' = NoExit
    /\ UNCHANGED <<nAct, ready, current_task, cancelled, nRuns, pc, must_cancel,
                   locked, waiters, lockFut, chat, clipboard, original_text,
                   applied, rendered, cancelAt, chatAtCancel, clipAtExit>>

\* The process from its start: the startup check, then the listener.
StartInit ==
    /\ InitOrchestrator
    /\ phase = "startup"
    /\ startup_result = "none"
    /\ exit_status = NoExit

StartNext ==
    \/ \E o \in StartupResults : startup(o)
    \/ Next

StartSpec == StartInit /\ [][StartNext]_vars

\* The event loop runs every callback of its ready queue, in order.
FairSpec == Spec /\ WF_vars(handle_hotkey) /\ WF_vars(task_step)

\* The loop's fairness, and every asyncio.sleep(0.1) timer expires.
LiveSpec == FairSpec /\ \A r \in Runs : WF_vars(TimerFire(r))

(***************************************************************************)
(* Properties                                                              *)
(***************************************************************************)
InBody == {r \in Runs : pc[r] \in Body}
NonTerminal == {r \in Runs : pc[r] \notin {"None"} \cup Terminal}
HKPending == Cardinality({i \in DOMAIN ready : ready[i] = HK})

\* handle_hotkey called task.cancel() on run r ...
Superseded(r) == cancelAt[r] # "never"
\* ... while the service call of r had not returned.
SupersededEarly(r) == Superseded(r) /\ chatAtCancel[r] \in {"none", "pending"}

\* C1: at most one run is inside the body guarded by self.lock (Capturing,
\* AwaitingCorrection or Applying), and the lock is held exactly while a run
\* is there, so the capture of one run never interleaves with the apply of
\* another.
C1_MutualExclusion ==
    /\ Cardinality(InBody) <= 1
    /\ locked <=> InBody # {}

\* A successor run captures right after its predecessor was cancelled in its
\* apply phase.
C1_Witness ==
    \E r \in Runs : \E q \in Runs :
        /\ cancelAt[r] = "Applying"
        /\ pc[r] = "Cancelled"
        /\ q > r
        /\ pc[q] = "Capturing"

\* C2: a run superseded by handle_hotkey before its service call returned
\* never applies, ends in no state but Cancelled, and does reach Cancelled.
C2_SupersededNeverApplies ==
    /\ [](\A r \in Runs : SupersededEarly(r) =>
              /\ ~applied[r]
              /\ pc[r] # "Applying"
              /\ pc[r] \in Terminal => pc[r] = "Cancelled")
    /\ \A r \in Runs : SupersededEarly(r) ~> (pc[r] = "Cancelled")

\* Run r was superseded while its call was pending, the call then returned a
\* usable result, and r is Cancelled.
C2_Witness ==
    \E r \in Runs :
        /\ cancelAt[r] = "AwaitingCorrection"
        /\ chatAtCancel[r] = "pending"
        /\ chat[r] = "usable"
        /\ pc[r] = "Cancelled"

\* C3 as stated: no run that ends Cancelled has executed its apply phase.
C3_CancelledNeverApplied ==
    \A r \in Runs : pc[r] = "Cancelled" => ~applied[r]

\* C3 amended: no run executes its apply after task.cancel() was called on it
\* (also when the service call had already returned a usable result); a run
\* that ends Cancelled has applied exactly when it was cancelled in the sleep
\* of paste_text_at_cursor, that is from Applying, after its copy and paste.
C3_NoApplyAfterCancel ==
    \A r \in Runs :
        /\ cancelAt[r] \notin {"never", "Applying"} => ~applied[r]
        /\ pc[r] = "Cancelled" =>
              /\ Superseded(r)
              /\ applied[r] <=> cancelAt[r] = "Applying"

\* The cancelling activation arrived after the call returned a usable result,
\* while the run slept in the poll loop.
C3_Witness ==
    \E r \in Runs :
        /\ cancelAt[r] = "AwaitingCorrection"
        /\ chatAtCancel[r] = "usable"
        /\ pc[r] = "Cancelled"

\* Every activation but the last arrived before the previous service call
\* returned.
AllSupersededEarly ==
    /\ nRuns >= 2
    /\ \A r \in 1..(nRuns - 1) : SupersededEarly(r)

C5_NoPendingChatOfEndedRun ==
    \A r \in Runs : pc[r] \in Terminal => chat[r] # "pending"

\* C6: a run that got no content, invalid content or an empty corrected_text
\* from the service renders and applies nothing, and when it ends without
\* having been superseded it is Completed with the clipboard as captured.
C6_UnusableResultNotApplied ==
    \A r \in Runs : chat[r] \in {"nocontent", "invalid", "empty"} =>
        /\ ~applied[r]
        /\ ~rendered[r]
        /\ (pc[r] \in Terminal /\ ~Superseded(r)) =>
              /\ pc[r] = "Completed"
              /\ clipAtExit[r] = original_text[r]

\* A run completed on an empty corrected_text.
C6_Witness ==
    \E r \in Runs :
        /\ chat[r] = "empty"
        /\ pc[r] = "Completed"
        /\ ~Superseded(r)

\* C7: a run whose service call raised ends Completed without apply and with
\* the clipboard as captured; the lock is not held when no run is in the
\* body; and every run that begins process_text takes the lock at once and
\* is Capturing.
C7_ServiceErrorRecovered ==
    /\ [](\A r \in Runs :
            (chat[r] \in {"ResponseError", "Exception"} /\ pc[r] \in Terminal
               /\ ~Superseded(r)) =>
                  /\ pc[r] = "Completed"
                  /\ ~applied[r]
                  /\ clipAtExit[r] = original_text[r])
    /\ []((\A r \in Runs : pc[r] \notin Body) => ~locked)
    /\ [][\A r \in Runs :
            (pc[r] = "Started" /\ pc'[r] \notin {"Started", "Cancelled"}) =>
                (pc'[r] = "Capturing" /\ locked')]_vars

\* After a run ended on a service exception a later run is Capturing.
C7_Witness ==
    \E r \in Runs : \E q \in Runs :
        /\ chat[r] = "Exception"
        /\ pc[r] = "Completed"
        /\ q > r
        /\ pc[q] = "Capturing"

\* C8: whenever a handle_hotkey step is at the head of the loop's queue it
\* can run, whatever the state of the previous run and of the lock; and the
\* hotkey thread can always hand over an activation.
C8_ActivationNeverBlocks ==
    /\ (ready # <<>> /\ Head(ready) = HK) => ENABLED handle_hotkey
    /\ nAct < MaxRuns => ENABLED on_activate

\* handle_hotkey is due while the previous run holds the lock in the poll loop.
C8_Witness ==
    /\ ready # <<>>
    /\ Head(ready) = HK
    /\ current_task # 0
    /\ pc[current_task] = "AwaitingCorrection"
    /\ locked

\* C9: every handled activation has created exactly one run, in arrival
\* order; a created run is scheduled; current_task is the newest run.
C9_OneRunPerActivation ==
    /\ nRuns + HKPending = nAct
    /\ current_task = nRuns
    /\ \A r \in Runs : pc[r] # "None" <=> r <= nRuns
    /\ \A r \in Runs : pc[r] = "Started" => InReady(r)

\* A third run was created while the first two had not ended.
C9_Witness ==
    /\ nRuns = 3
    /\ pc[1] \notin Terminal
    /\ pc[2] \notin Terminal
    /\ pc[3] = "Started"

\* C10 as stated: at most one non-terminal run exists.
C10_AtMostOneNonTerminal == Cardinality(NonTerminal) <= 1

\* C10 amended: every non-terminal run but the newest has been cancelled by
\* the activation that superseded it and its last step is scheduled.
C10_OthersSuperseded ==
    \A r \in NonTerminal :
        r # current_task => (must_cancel[r] /\ Superseded(r) /\ InReady(r))

\* Two non-terminal runs: the superseded one and its successor.
C10_Witness ==
    \E r \in NonTerminal : r # current_task /\ pc[r] \in Body

\* C11: a run visits Capturing, AwaitingCorrection, Applying and Completed in
\* that order (Completed on a usable result only from Applying); the diff and
\* the summary are rendered before the apply; and a run that was never
\* superseded and is Completed on a usable result has applied it and left
\* the corrected text on the clipboard.
C11_NominalOrder ==
    /\ [][\A r \in Runs : pc'[r] # pc[r] =>
            /\ pc'[r] = "Capturing" => pc[r] \in {"Started", "LockWait"}
            /\ pc'[r] = "AwaitingCorrection" => pc[r] = "Capturing"
            /\ pc'[r] = "Applying" =>
                  (pc[r] = "AwaitingCorrection" /\ chat[r] = "usable"
                     /\ rendered'[r] /\ clipboard' = Fix(r))
            /\ (pc'[r] = "Completed" /\ chat[r] = "usable") =>
                  (pc[r] = "Applying" /\ clipboard' = Fix(r))]_vars
    /\ [](\A r \in Runs : applied[r] => rendered[r])
    /\ [](\A r \in Runs :
            (pc[r] = "Completed" /\ chat[r] = "usable" /\ ~Superseded(r)) =>
                (applied[r] /\ rendered[r] /\ clipAtExit[r] = Fix(r)))

\* A run that was never superseded completed on a usable result.
C11_Witness ==
    \E r \in Runs :
        /\ pc[r] = "Completed"
        /\ chat[r] = "usable"
        /\ ~Superseded(r)
        /\ clipboard = Fix(r)

\* C12: an activation is accepted only after a startup check that succeeded;
\* after a check that ended in any other way none ever is.
C12_ListenOnlyAfterCheck ==
    nAct > 0 => startup_result = "ok"

\* C13 as stated: an unreachable service and a missing model end the process
\* with fatal statuses that differ from each other.
C13_DistinctStatuses ==
    phase = "exited" =>
        /\ startup_result = "ConnectError" =>
              (exit_status # EXIT_INTERRUPTED /\ exit_status # EXIT_MODEL_MISSING)
        /\ startup_result = "ResponseError" =>
              (exit_status # EXIT_INTERRUPTED /\ exit_status # EXIT_UNREACHABLE)

\* C13 amended: an unreachable service and a missing model each end the
\* process, before any activation, with status 1, which differs from the
\* status 0 of an interrupted start; the two statuses are the same.
C13_FatalStatusOne ==
    /\ startup_result \in {"ConnectError", "ResponseError"} =>
          (phase = "exited" /\ exit_status = 1 /\ exit_status # EXIT_INTERRUPTED
             /\ nAct = 0)
    /\ EXIT_UNREACHABLE = EXIT_MODEL_MISSING

\* The process has exited on a missing model.
C13_Witness ==
    /\ phase = "exited"
    /\ startup_result = "ResponseError"
    /\ exit_status = EXIT_MODEL_MISSING

\* C14: at most one chat_task is pending at any instant.
C14_AtMostOneChatPending ==
    Cardinality({r \in Runs : chat[r] = "pending"}) <= 1

\* C15: when a run has pressed its copy chord, and indeed as soon as it has
\* taken its first step at all, every earlier run has ended.
C15_PredecessorEndedFirst ==
    \A q \in Runs : \A r \in Runs :
        (r < q /\ pc[q] \notin {"None", "Started"}) => pc[r] \in Terminal

\* A run captures after its predecessor was cancelled before its first step.
C15_Witness ==
    \E r \in Runs : \E q \in Runs :
        /\ r < q
        /\ cancelAt[r] = "Started"
        /\ pc[r] = "Cancelled"
        /\ pc[q] = "Capturing"

\* C16: a run that has ended without being superseded has gone on from the
\* capture and called the correction service.
C16_CaptureFailureProceeds ==
    \A r \in Runs : (pc[r] \in Terminal /\ ~Superseded(r)) => chat[r] # "none"

\* C17: a run that got a usable result and has ended without being
\* superseded is Completed.
C17_ApplyFailureCompletes ==
    \A r \in Runs :
        (pc[r] \in Terminal /\ ~Superseded(r) /\ chat[r] = "usable") =>
            pc[r] = "Completed"

\* C18: at most one non-terminal run has no cancellation pending, and that
\* run is current_task.
C18_OneLiveUncancelled ==
    /\ Cardinality({r \in NonTerminal : ~must_cancel[r]}) <= 1
    /\ \A r \in NonTerminal : ~must_cancel[r] => r = current_task

\* Two runs that have not begun: the older with its cancellation pending.
C18_Witness ==
    \E r \in Runs :
        /\ r # current_task
        /\ must_cancel[r]
        /\ pc[r] = "Started"
        /\ pc[current_task] = "Started"

\* C19: self.cancelled is False whenever a step of a pipeline can run, no
\* chat_task is ever cancelled by the poll loop, and a run is Cancelled only
\* through the task.cancel() of handle_hotkey.
C19_FlagNeverObserved ==
    /\ ~cancelled
    /\ \A r \in Runs : chat[r] # "cancelled"
    /\ \A r \in Runs : pc[r] = "Cancelled" => Superseded(r)

\* The poll loop is about to resume in a run that was just cancelled.
C19_Witness ==
    \E r \in Runs :
        /\ must_cancel[r]
        /\ pc[r] = "AwaitingCorrection"
        /\ chat[r] = "pending"
        /\ ready # <<>>
        /\ Head(ready) = r

====
